---- MODULE Spec2Model ----
(***************************************************************************)
(* Model of chroma-bridge: the ServiceNow ticket sync (src/incident.py),   *)
(* the PDF chunk store (src/document.py), the administrative clean         *)
(* (src/extra.py) and the HTTP entry points that call them (src/app.py),   *)
(* over a ChromaDB server holding named collections.                       *)
(*                                                                         *)
(* Python strings are modelled as sequences of one-character strings, so   *)
(* that strptime, str.split, re.search and the f-strings are computed and  *)
(* not assumed.  Python's None is the value None.                          *)
(***************************************************************************)
EXTENDS Integers, Sequences, FiniteSets, TLC

\* a value no Python string equals (strings are sequences of single characters)
None == <<"None">>

(***************************************************************************)
(* Characters and numbers.                                                 *)
(***************************************************************************)
DigitChars == <<"0", "1", "2", "3", "4", "5", "6", "7", "8", "9">>

IsDigit(c) == \E i \in 1..10 : DigitChars[i] = c

DigitVal(c) == (CHOOSE i \in 1..10 : DigitChars[i] = c) - 1

AllDigits(s) == \A i \in 1..Len(s) : IsDigit(s[i])

\* int(s) of a non-empty run of decimal digits
RECURSIVE IntOf(_)
IntOf(s) ==
  IF s = <<>> THEN 0
  ELSE IntOf(SubSeq(s, 1, Len(s) - 1)) * 10 + DigitVal(s[Len(s)])

\* the %02d / %04d renderings used by strftime
D2(n) == <<DigitChars[((n \div 10) % 10) + 1], DigitChars[(n % 10) + 1]>>

D4(n) == D2(n \div 100) \o D2(n % 100)

(***************************************************************************)
(* datetime.strptime(s, '%Y-%m-%d %H:%M:%S').  _strptime turns the format  *)
(* into the regular expression                                             *)
(*   (\d\d\d\d)-(1[0-2]|0[1-9]|[1-9])-(3[01]|[12]\d|0[1-9]|[1-9]| [1-9])   *)
(*   \s+(2[0-3]|[0-1]\d|\d):([0-5]\d|\d):(6[0-1]|[0-5]\d|\d)               *)
(* which must consume the whole string; the fields then go through the     *)
(* datetime constructor, which checks the calendar and second <= 59.       *)
(* The whitespace of the format matches \s+ (up to two characters here).   *)
(***************************************************************************)
Whitespace == {" "}

IsLeap(y) == (y % 4 = 0 /\ y % 100 # 0) \/ y % 400 = 0

DaysInMonth(y, m) ==
  IF m = 2 THEN (IF IsLeap(y) THEN 29 ELSE 28)
  ELSE IF m \in {4, 6, 9, 11} THEN 30 ELSE 31

\* a one- or two-character numeric field with value in lo..hi
FieldOk(f, lo, hi) ==
  /\ AllDigits(f)
  /\ IF Len(f) = 2 THEN IntOf(f) \in lo..hi
     ELSE IntOf(f) \in (IF lo = 0 THEN 0 ELSE 1)..9

DayFieldOk(f) ==
  \/ FieldOk(f, 1, 31)
  \/ Len(f) = 2 /\ f[1] = " " /\ IsDigit(f[2]) /\ DigitVal(f[2]) \in 1..9

DayVal(f) == IF f[1] = " " THEN DigitVal(f[2]) ELSE IntOf(f)

\* s[p..p+k-1] when it lies within s, the empty string otherwise
Slice(s, p, k) == IF p + k - 1 <= Len(s) THEN SubSeq(s, p, p + k - 1) ELSE <<>>

CharAt(s, p) == IF p <= Len(s) THEN s[p] ELSE ""

\* The matcher, one group at a time from position p on: the widths k the
\* group can take, each followed by the rest of the pattern.  c collects the
\* widths chosen so far.
SplitsS(s, c, p) ==
  {[c EXCEPT !.S = k] : k \in {k \in 1..2 :
     Len(s) = p + k - 1 /\ FieldOk(Slice(s, p, k), 0, 61)}}

SplitsM(s, c, p) ==
  UNION {SplitsS(s, [c EXCEPT !.M = k], p + k + 1) : k \in {k \in 1..2 :
     Slice(s, p, k) # <<>> /\ FieldOk(Slice(s, p, k), 0, 59) /\ CharAt(s, p + k) = ":"}}

SplitsH(s, c, p) ==
  UNION {SplitsM(s, [c EXCEPT !.H = k], p + k + 1) : k \in {k \in 1..2 :
     Slice(s, p, k) # <<>> /\ FieldOk(Slice(s, p, k), 0, 23) /\ CharAt(s, p + k) = ":"}}

SplitsW(s, c, p) ==
  UNION {SplitsH(s, [c EXCEPT !.w = k], p + k) : k \in {k \in 1..2 :
     Slice(s, p, k) # <<>> /\ \A i \in p..(p + k - 1) : s[i] \in Whitespace}}

SplitsD(s, c, p) ==
  UNION {SplitsW(s, [c EXCEPT !.d = k], p + k) : k \in {k \in 1..2 :
     Slice(s, p, k) # <<>> /\ DayFieldOk(Slice(s, p, k))}}

SplitsMonth(s, c, p) ==
  UNION {SplitsD(s, [c EXCEPT !.m = k], p + k + 1) : k \in {k \in 1..2 :
     Slice(s, p, k) # <<>> /\ FieldOk(Slice(s, p, k), 1, 12) /\ CharAt(s, p + k) = "-"}}

\* the ways the pattern matches the whole of s, as the width of each group
FieldSplits(s) ==
  IF Slice(s, 1, 4) # <<>> /\ AllDigits(Slice(s, 1, 4)) /\ CharAt(s, 5) = "-"
    THEN SplitsMonth(s, [m |-> 0, d |-> 0, w |-> 0, H |-> 0, M |-> 0, S |-> 0], 6)
  ELSE {}

\* the six fields of a matched string, as <<Y, m, d, H, M, S>>
FieldsOf(s, c) ==
  LET pm == 6
      pd == pm + c.m + 1
      pH == pd + c.d + c.w
      pM == pH + c.H + 1
      pS == pM + c.M + 1
  IN  << IntOf(SubSeq(s, 1, 4)),
         IntOf(SubSeq(s, pm, pm + c.m - 1)),
         DayVal(SubSeq(s, pd, pd + c.d - 1)),
         IntOf(SubSeq(s, pH, pH + c.H - 1)),
         IntOf(SubSeq(s, pM, pM + c.M - 1)),
         IntOf(SubSeq(s, pS, pS + c.S - 1)) >>

DatetimeOk(t) ==
  /\ t[1] >= 1
  /\ t[3] <= DaysInMonth(t[1], t[2])
  /\ t[6] <= 59

\* [exc |-> "" , dt |-> fields]  or  [exc |-> "TypeError" | "ValueError"]
Strptime(s) ==
  IF s = None THEN [exc |-> "TypeError", dt |-> <<>>]
  ELSE IF FieldSplits(s) = {} THEN [exc |-> "ValueError", dt |-> <<>>]
  ELSE CHOOSE parsed \in
         {IF DatetimeOk(t) THEN [exc |-> "", dt |-> t]
          ELSE [exc |-> "ValueError", dt |-> <<>>] :
            t \in {FieldsOf(s, c) : c \in {CHOOSE c \in FieldSplits(s) : TRUE}}} : TRUE

\* datetime order: lexicographic on (Y, m, d, H, M, S)
RECURSIVE DtLess(_, _)
DtLess(a, b) ==
  /\ a # <<>>
  /\ \/ a[1] < b[1]
     \/ a[1] = b[1] /\ DtLess(Tail(a), Tail(b))

\* dt.strftime('%Y-%m-%dT%H:%M:%SZ')
to_iso8601(dt_str) ==
  LET t == Strptime(dt_str).dt
  IN  D4(t[1]) \o <<"-">> \o D2(t[2]) \o <<"-">> \o D2(t[3]) \o <<"T">>
        \o D2(t[4]) \o <<":">> \o D2(t[5]) \o <<":">> \o D2(t[6]) \o <<"Z">>

(***************************************************************************)
(* str.split(' '): the pieces between single spaces (empty pieces kept).   *)
(***************************************************************************)
RECURSIVE SplitSpace(_)
SplitSpace(s) ==
  IF \A i \in 1..Len(s) : s[i] # " " THEN <<s>>
  ELSE LET k == CHOOSE i \in 1..Len(s) :
                  s[i] = " " /\ \A j \in 1..(i - 1) : s[j] # " "
       IN  <<SubSeq(s, 1, k - 1)>> \o SplitSpace(SubSeq(s, k + 1, Len(s)))

(***************************************************************************)
(* datetime.timestamp(): seconds since 1970-01-01 00:00:00, the process    *)
(* running in UTC.                                                         *)
(***************************************************************************)
RECURSIVE DaysBeforeYear(_)
DaysBeforeYear(y) ==
  IF y <= 1970 THEN 0
  ELSE DaysBeforeYear(y - 1) + (IF IsLeap(y - 1) THEN 366 ELSE 365)

RECURSIVE DaysBeforeMonth(_, _)
DaysBeforeMonth(y, m) ==
  IF m <= 1 THEN 0 ELSE DaysBeforeMonth(y, m - 1) + DaysInMonth(y, m - 1)

Timestamp(t) ==
  (DaysBeforeYear(t[1]) + DaysBeforeMonth(t[1], t[2]) + (t[3] - 1)) * 86400
    + t[4] * 3600 + t[5] * 60 + t[6]

\* Python string order: by code point ('0'..'9' < 'A'..'Z')
Alphabet == DigitChars \o <<"C", "I", "N", "X">>

CharCode(c) == CHOOSE i \in 1..Len(Alphabet) : Alphabet[i] = c

RECURSIVE StrLess(_, _)
StrLess(a, b) ==
  IF b = <<>> THEN FALSE
  ELSE IF a = <<>> THEN TRUE
  ELSE \/ CharCode(Head(a)) < CharCode(Head(b))
       \/ Head(a) = Head(b) /\ StrLess(Tail(a), Tail(b))

(***************************************************************************)
(* re.search(r'\d+', ticket_number): the first maximal run of digits.      *)
(***************************************************************************)
RECURSIVE DigitRun(_)
DigitRun(s) ==
  IF s = <<>> \/ ~IsDigit(Head(s)) THEN <<>>
  ELSE <<Head(s)>> \o DigitRun(Tail(s))

RECURSIVE FirstDigitRun(_)
FirstDigitRun(s) ==
  IF s = <<>> THEN <<>>
  ELSE IF IsDigit(Head(s)) THEN DigitRun(s)
  ELSE FirstDigitRun(Tail(s))

extract_number(ticket_number) ==
  IF FirstDigitRun(ticket_number) = <<>> THEN -1
  ELSE IntOf(FirstDigitRun(ticket_number))

\* x.get('number', ''): a field the record lacks is None in the model
NumberKey(x) == IF x.number = None THEN <<>> ELSE x.number

\* max(tickets, key=lambda x: extract_number(x.get('number', ''))): a scan
\* that keeps the element seen first among those with the greatest key
RECURSIVE MaxFrom(_, _)
MaxFrom(best, rest) ==
  IF rest = <<>> THEN best
  ELSE IF extract_number(NumberKey(Head(rest))) > extract_number(NumberKey(best))
    THEN MaxFrom(Head(rest), Tail(rest))
  ELSE MaxFrom(best, Tail(rest))

\* the selection by ticket number as a string (the line the code comments out)
RECURSIVE MaxStrFrom(_, _)
MaxStrFrom(best, rest) ==
  IF rest = <<>> THEN best
  ELSE IF StrLess(best.number, Head(rest).number)
    THEN MaxStrFrom(Head(rest), Tail(rest))
  ELSE MaxStrFrom(best, Tail(rest))

MaxByNumber_ByString(tickets) == MaxStrFrom(Head(tickets), Tail(tickets))

MaxByNumber(tickets) == MaxFrom(Head(tickets), Tail(tickets))

(***************************************************************************)
(* The record source.  The incident table holds the tickets of Incidents   *)
(* that match state=6^close_notesISNOTEMPTY; a ticket enters when it is    *)
(* resolved.                                                               *)
(***************************************************************************)
Stamp(y, m, d, H, M, S) ==
  D4(y) \o <<"-">> \o D2(m) \o <<"-">> \o D2(d) \o <<" ">>
    \o D2(H) \o <<":">> \o D2(M) \o <<":">> \o D2(S)

Incidents ==
  << [number |-> <<"I", "N", "C", "5">>,
      short_description |-> "S1", description |-> "Q1", close_notes |-> "A1",
      sys_created_on |-> Stamp(2025, 7, 1, 9, 30, 0)],
     [number |-> <<"I", "N", "C", "1", "0", "0">>,
      short_description |-> "S2", description |-> "Q2", close_notes |-> "A2",
      sys_created_on |-> Stamp(2025, 7, 2, 9, 30, 0)],
     [number |-> <<"I", "N", "C", "2", "3">>,
      short_description |-> "S3", description |-> "Q3", close_notes |-> "A3",
      sys_created_on |-> Stamp(2025, 7, 3, 9, 30, 0)] >>

\* sys_created_on>javascript:gs.dateGenerate(date_part, time_part)
CreatedAfter(t, date_part, time_part) ==
  \E bound \in {Strptime(date_part \o <<" ">> \o time_part).dt},
     created \in {Strptime(t.sys_created_on).dt} : DtLess(bound, created)

\* ORDERBYDESCnumber: the records of S, greatest number first
RECURSIVE OrderByDescNumber(_)
OrderByDescNumber(S) ==
  IF S = {} THEN <<>>
  ELSE LET top == CHOOSE t \in S : \A u \in S \ {t} : StrLess(u.number, t.number)
       IN  <<top>> \o OrderByDescNumber(S \ {top})

\* the number of records one query returns at most (1000 in the program)
sysparm_limit == 2

Truncate(s, n) == IF Len(s) <= n THEN s ELSE SubSeq(s, 1, n)

\* the 'result' array of a 200 response
QueryIncidents(src, date_part, time_part) ==
  CHOOSE result \in
    {Truncate(OrderByDescNumber({Incidents[i] : i \in matching}), sysparm_limit) :
       matching \in {{j \in src : CreatedAfter(Incidents[j], date_part, time_part)}}} :
    TRUE

(***************************************************************************)
(* The ChromaDB server: the existing collections by name, each with its    *)
(* metadata map and its records by id.  The operations are the client      *)
(* calls the program makes; each returns the exception it raises ("" for   *)
(* none) and the collections afterwards.                                   *)
(***************************************************************************)
NoMetadata == <<>>

NoDocs == <<>>

Returned(c) == [exc |-> "", colls |-> c]

Raised(e, c) == [exc |-> e, colls |-> c]

get_collection(c, name) ==
  IF name \in DOMAIN c THEN Returned(c) ELSE Raised("NotFoundError", c)

create_collection(c, name, metadata) ==
  IF name \in DOMAIN c THEN Raised("UniqueConstraintError", c)
  ELSE Returned(c @@ (name :> [metadata |-> metadata, docs |-> NoDocs]))

\* collection.modify(metadata=m): m becomes the collection's metadata
modify(c, name, metadata) ==
  IF name \notin DOMAIN c THEN Raised("NotFoundError", c)
  ELSE Returned([c EXCEPT ![name].metadata = metadata])

\* get_or_create_collection that also applies a given metadata map to a
\* collection that exists
get_or_create_collection_AppliesMetadata(c, name, metadata) ==
  IF name \notin DOMAIN c THEN create_collection(c, name, metadata)
  ELSE IF metadata # NoMetadata THEN modify(c, name, metadata)
  ELSE Returned(c)

\* the metadata argument is used only when the collection is created
get_or_create_collection(c, name, metadata) ==
  IF name \in DOMAIN c THEN Returned(c)
  ELSE create_collection(c, name, metadata)

\* collection.add: ids already in the collection either fail the call or
\* are skipped, as the server version has it (on_dup)
add(c, name, ids, documents, metadatas, on_dup) ==
  IF name \notin DOMAIN c THEN Raised("NotFoundError", c)
  ELSE IF ids = <<>> THEN Raised("ValueError", c)
  ELSE LET old == c[name].docs
           dup == {i \in 1..Len(ids) : ids[i] \in DOMAIN old}
           new == {ids[i] : i \in (1..Len(ids)) \ dup}
           at(id) == CHOOSE i \in 1..Len(ids) : ids[i] = id
       IN  IF dup # {} /\ on_dup = "raise" THEN Raised("DuplicateIDError", c)
           ELSE Returned([c EXCEPT ![name].docs =
                   [id \in new |-> [document |-> documents[at(id)],
                                    metadata |-> metadatas[at(id)]]] @@ old])

delete_collection(c, name) ==
  IF name \notin DOMAIN c THEN Raised("NotFoundError", c)
  ELSE Returned([n \in (DOMAIN c) \ {name} |-> c[n]])

(***************************************************************************)
(* ChromaDbTicketProcessor (src/incident.py).                              *)
(***************************************************************************)
\* Python truthiness of an optional string
Truthy(v) == v # None /\ v # <<>>

MetaGet(metadata, key) == IF key \in DOMAIN metadata THEN metadata[key] ELSE None

load_last_update_time(collection) == MetaGet(collection.metadata, "last_update_time")

\* SavedMetadata with the time converted as opened_at is
SavedMetadata_Iso(latest_time) == "last_update_time" :> to_iso8601(latest_time)

\* the metadata map save_last_update_time hands to collection.modify
SavedMetadata(latest_time) == "last_update_time" :> latest_time

\* save_last_update_time that leaves a stored checkpoint that reads as a later
\* time than latest_time as it is
save_last_update_time_OnlyForward(c, collection, latest_time) ==
  IF /\ collection.name \in DOMAIN c
     /\ \E stored \in {MetaGet(c[collection.name].metadata, "last_update_time")} :
          /\ Strptime(stored).exc = ""
          /\ DtLess(Strptime(latest_time).dt, Strptime(stored).dt)
    THEN Returned(c)
  ELSE modify(c, collection.name, SavedMetadata(latest_time))

save_last_update_time(c, collection, latest_time) ==
  modify(c, collection.name, SavedMetadata(latest_time))

MapTicket(ticket) ==
  [ticket_number |-> ticket.number,
   title |-> ticket.short_description,
   query |-> ticket.description,
   answer |-> ticket.close_notes,
   url |-> "SNOW_URL/incident_list.do?",
   created |-> CHOOSE ts \in {Timestamp(dt) : dt \in {Strptime(ticket.sys_created_on).dt}} : TRUE,
   opened_at |-> to_iso8601(ticket.sys_created_on)]

\* the fetch without its empty-result test: max() of an empty list raises
NoNewTickets_MaxRaises == [exc |-> "ValueError", tickets |-> <<>>, latest |-> None]

\* `return [], None` when the result array is empty
NoNewTickets == [exc |-> "", tickets |-> <<>>, latest |-> None]

\* the else branch raising as response.raise_for_status() would
NonOkReply_Raises(reply) == [exc |-> "HTTPError", tickets |-> <<>>, latest |-> None]

\* the else branch of the status test: logged, then `return [], None`
NonOkReply(reply) == [exc |-> "", tickets |-> <<>>, latest |-> None]

\* the branch of a 200 response, from its 'result' array: the empty test, the
\* latest record, and the mapping loop, in which strptime raises on the first
\* record whose sys_created_on it cannot parse
MapResult(tickets) ==
  LET bad == {i \in 1..Len(tickets) : Strptime(tickets[i].sys_created_on).exc # ""}
  IN  IF tickets = <<>> THEN NoNewTickets
      ELSE IF bad # {}
        THEN [exc |-> Strptime(tickets[CHOOSE i \in bad :
                         \A j \in bad : i <= j].sys_created_on).exc,
              tickets |-> <<>>, latest |-> None]
      ELSE [exc |-> "",
            tickets |-> [i \in 1..Len(tickets) |-> MapTicket(tickets[i])],
            latest |-> MaxByNumber(tickets)]

\* reply: "200", another status code, or the exception requests.get raises
fetch_tickets_from_servicenow(after_datetime, src, reply) ==
  CHOOSE returned \in
    {IF Len(parts) # 2
       THEN [exc |-> "ValueError", tickets |-> <<>>, latest |-> None]
     ELSE IF reply = "ConnectionError"
       THEN [exc |-> "ConnectionError", tickets |-> <<>>, latest |-> None]
     ELSE IF reply # "200" THEN NonOkReply(reply)
     ELSE CHOOSE mapped \in {MapResult(tickets) :
                tickets \in {QueryIncidents(src, parts[1], parts[2])}} : TRUE :
       parts \in {SplitSpace(after_datetime)}} : TRUE

TicketDocument(t) ==
  <<"Ticket query/question: ", t.query, " \n - Ticket answer/solution: ", t.answer>>

TicketMetadata(t) ==
  [ticket_number |-> t.ticket_number, ticket_title |-> t.title, url |-> t.url,
   created |-> t.created, opened_at |-> t.opened_at]

\* prepare_ticket_batches pairing the documents with the metadata maps in the
\* opposite order
prepare_ticket_batches_Reversed(ticket_data) ==
  [documents |-> [i \in 1..Len(ticket_data) |-> TicketDocument(ticket_data[i])],
   metadatas |-> [i \in 1..Len(ticket_data) |->
                    TicketMetadata(ticket_data[Len(ticket_data) + 1 - i])]]

prepare_ticket_batches(ticket_data) ==
  [documents |-> [i \in 1..Len(ticket_data) |-> TicketDocument(ticket_data[i])],
   metadatas |-> [i \in 1..Len(ticket_data) |-> TicketMetadata(ticket_data[i])]]

\* str(i) for 0 <= i
RECURSIVE Str(_)
Str(i) == IF i < 10 THEN <<DigitChars[i + 1]>>
          ELSE Str(i \div 10) \o <<DigitChars[(i % 10) + 1]>>

TicketIds(documents) == [i \in 1..Len(documents) |-> Str(i - 1)]

\* store_ticket_data that writes the checkpoint together with the insert (the
\* opened_at of the first record of the batch)
store_ticket_data_WithCheckpoint(c, coll, documents, metadatas, on_dup) ==
  LET added == add(c, coll.name, TicketIds(documents), documents, metadatas, on_dup)
  IN  IF added.exc # "" THEN added
      ELSE modify(added.colls, coll.name, SavedMetadata(metadatas[1].opened_at))

store_ticket_data(c, coll, documents, metadatas, on_dup) ==
  add(c, coll.name, TicketIds(documents), documents, metadatas, on_dup)

collection_name == "ticketData"

CreationMetadata ==
  ("hnsw:space" :> "cosine") @@ ("sync_threshold" :> 1000) @@ ("batch_size" :> 100)

DefaultCutoff == Stamp(2000, 1, 1, 0, 0, 0)

\* CutoffTime without the default: the loaded value as it is
CutoffTime_NoDefault(last_time) == last_time

\* CutoffTime that never uses the stored checkpoint
CutoffTime_AlwaysDefault(last_time) == DefaultCutoff

CutoffTime(last_time) == IF Truthy(last_time) THEN last_time ELSE DefaultCutoff

SyncedResult(tickets, latest_time) ==
  [success |-> TRUE, message |-> "Tickets synced successfully",
   tickets_processed |-> Len(tickets), latest_update_time |-> latest_time]

NoTicketsResult ==
  [success |-> TRUE, message |-> "No new tickets to process",
   tickets_processed |-> 0, latest_update_time |-> None]

\* the except clause returning the success flag of the other outcomes
ErrorResult_Success(e) ==
  [success |-> TRUE, message |-> e,
   tickets_processed |-> 0, latest_update_time |-> None]

ErrorResult(e) ==
  [success |-> FALSE, message |-> e,
   tickets_processed |-> 0, latest_update_time |-> None]

(***************************************************************************)
(* State.                                                                  *)
(*   colls    the server's collections                                     *)
(*   source   the indexes in Incidents of the tickets the source holds     *)
(*   run      per request to /sync-tickets: where sync_tickets stands and  *)
(*            its locals; pre is the collections when the run began, steps *)
(*            the calls made so far, query the lower bound sent to the     *)
(*            source, raw the result array of the reply, and ids,          *)
(*            documents, metadatas the arguments of collection.add         *)
(*   api      the last answer of another entry point                       *)
(*   nReq     requests made so far                                         *)
(***************************************************************************)
VARIABLES colls, source, run, api, nReq

vars == <<colls, source, run, api, nReq>>

MaxRequests == 2

Runs == {1, 2}

\* the runs of a server that handles one request at a time
SeqRuns == {1}

NoHandle == [name |-> "", metadata |-> NoMetadata]

\* the variables `latest` and the returned dictionary before they are assigned
NoLatest ==
  [number |-> None, short_description |-> None, description |-> None,
   close_notes |-> None, sys_created_on |-> None]

NoResult ==
  [success |-> FALSE, message |-> "", tickets_processed |-> 0,
   latest_update_time |-> None]

IdleRun ==
  [pc |-> "idle", coll_names |-> {}, coll |-> NoHandle, cutoff_time |-> None,
   reply |-> "", tickets |-> <<>>, latest |-> NoLatest, latest_time |-> None,
   result |-> NoResult,
   raised |-> "", inserted |-> FALSE, saved |-> FALSE, pre |-> <<>>,
   steps |-> <<>>, query |-> <<>>, raw |-> <<>>,
   ids |-> <<>>, documents |-> <<>>, metadatas |-> <<>>]

NoAnswer == [op |-> "", status |-> 0]

Init ==
  /\ colls = <<>>
  /\ source = {}
  /\ run = [r \in Runs |-> IdleRun]
  /\ api = NoAnswer
  /\ nReq = 0

AllIdle == \A r \in Runs : run[r].pc = "idle"

\* what a store call can raise besides its own errors: the server unreachable
Faults == {"", "ConnectionError"}

\* Fail leaving the run at the step that raised, to be made again
Fail_Retries(r, step, e) ==
  run' = [run EXCEPT ![r].raised = step, ![r].steps = Append(@, step)]

\* an exception raised in `step` reaches the except clause of sync_tickets
Fail(r, step, e) ==
  run' = [run EXCEPT ![r].pc = "done", ![r].raised = step,
                     ![r].steps = Append(@, step),
                     ![r].result = ErrorResult(e)]

\* whether fetch_tickets_from_servicenow gets as far as requests.get
Asks(after_datetime) == Len(SplitSpace(after_datetime)) = 2

\* a ticket of Incidents is resolved and enters the source's result set
Resolve(i) ==
  /\ AllIdle
  /\ i \notin source
  /\ source' = source \cup {i}
  /\ UNCHANGED <<colls, run, api, nReq>>

\* sync_tickets, fetch_db_client
Begin(r) ==
  /\ run[r].pc = "idle"
  /\ nReq < MaxRequests
  /\ nReq' = nReq + 1
  /\ api' = NoAnswer
  /\ \E fault \in Faults :
       IF fault # ""
         THEN run' = [run EXCEPT ![r].pc = "done", ![r].raised = "connect",
                                 ![r].steps = <<"connect">>,
                                 ![r].result = ErrorResult(fault), ![r].pre = colls]
         ELSE run' = [run EXCEPT ![r].pc = "list", ![r].steps = <<"connect">>,
                                 ![r].pre = colls]
  /\ UNCHANGED <<colls, source>>

\* client.list_collections()
ListCollections(r) ==
  /\ run[r].pc = "list"
  /\ \E fault \in Faults :
       IF fault # "" THEN Fail(r, "list", fault)
       ELSE run' = [run EXCEPT ![r].pc = "open", ![r].steps = Append(@, "list"),
                               ![r].coll_names = DOMAIN colls]
  /\ UNCHANGED <<colls, source, api, nReq>>

\* the collection the run works on: get_collection when the listing had it,
\* create_collection with the creation metadata otherwise
OpenTicketCollection(c, coll_names) ==
  IF collection_name \in coll_names THEN get_collection(c, collection_name)
  ELSE create_collection(c, collection_name, CreationMetadata)

\* get or create the collection, load_last_update_time, the default cutoff
OpenCollection(r) ==
  /\ run[r].pc = "open"
  /\ \E fault \in Faults :
       LET got == OpenTicketCollection(colls, run[r].coll_names)
           coll == [name |-> collection_name,
                    metadata |-> got.colls[collection_name].metadata]
       IN  IF fault # "" THEN Fail(r, "open", fault) /\ UNCHANGED colls
           ELSE IF got.exc # "" THEN Fail(r, "open", got.exc) /\ UNCHANGED colls
           ELSE /\ colls' = got.colls
                /\ run' = [run EXCEPT ![r].pc = "fetch", ![r].coll = coll,
                             ![r].steps = Append(@, "open"),
                             ![r].cutoff_time = CutoffTime(load_last_update_time(coll))]
  /\ UNCHANGED <<source, api, nReq>>

Replies == {"200", "503", "ConnectionError"}

\* fetch_tickets_from_servicenow(cutoff_time) and the test `if tickets`
Fetch(r) ==
  /\ run[r].pc = "fetch"
  /\ \E reply \in Replies :
     \E got \in {fetch_tickets_from_servicenow(run[r].cutoff_time, source, reply)},
        asked \in {IF Asks(run[r].cutoff_time) THEN reply ELSE ""} :
     \E query \in {IF asked = "" THEN <<>> ELSE SplitSpace(run[r].cutoff_time)} :
     \E raw \in {IF asked = "200" THEN QueryIncidents(source, query[1], query[2])
                 ELSE <<>>} :
       LET sent == [run EXCEPT ![r].steps = Append(@, "fetch"), ![r].reply = asked,
                               ![r].query = query, ![r].raw = raw]
       IN  IF got.exc # ""
             THEN run' = [sent EXCEPT ![r].pc = "done", ![r].raised = "fetch",
                            ![r].result = ErrorResult(got.exc)]
           ELSE IF got.tickets # <<>>
             THEN run' = [sent EXCEPT ![r].pc = "store",
                            ![r].tickets = got.tickets, ![r].latest = got.latest]
           ELSE run' = [sent EXCEPT ![r].pc = "done",
                          ![r].result = NoTicketsResult]
  /\ UNCHANGED <<colls, source, api, nReq>>

\* AfterStore without the exception ending the run
AfterStore_SavesAnyway(exc, latest_time) ==
  IF Truthy(latest_time) THEN "save" ELSE "done"

\* where the run goes after store_ticket_data: the except clause when it
\* raised, the checkpoint save when the latest record has a creation time,
\* the success outcome otherwise
AfterStore(exc, latest_time) ==
  IF exc # "" THEN "error"
  ELSE IF Truthy(latest_time) THEN "save" ELSE "done"

OnDup == {"raise", "ignore"}

\* prepare_ticket_batches, store_ticket_data, latest.get('sys_created_on')
Store(r) ==
  /\ run[r].pc = "store"
  /\ \E fault \in Faults, on_dup \in OnDup :
       LET batch == prepare_ticket_batches(run[r].tickets)
           got == store_ticket_data(colls, run[r].coll, batch.documents,
                                    batch.metadatas, on_dup)
           exc == IF fault # "" THEN fault ELSE got.exc
           latest_time == run[r].latest.sys_created_on
           next == AfterStore(exc, latest_time)
           called == [run EXCEPT ![r].steps = Append(@, "store"),
                                 ![r].ids = TicketIds(batch.documents),
                                 ![r].documents = batch.documents,
                                 ![r].metadatas = batch.metadatas]
       IN  /\ colls' = IF exc = "" THEN got.colls ELSE colls
           /\ IF next = "error"
                THEN run' = [called EXCEPT ![r].pc = "done", ![r].raised = "store",
                               ![r].result = ErrorResult(exc)]
              ELSE IF next = "save"
                THEN run' = [called EXCEPT ![r].pc = "save", ![r].inserted = (exc = ""),
                               ![r].latest_time = latest_time]
              ELSE run' = [called EXCEPT ![r].pc = "done", ![r].inserted = (exc = ""),
                             ![r].latest_time = latest_time,
                             ![r].result = SyncedResult(run[r].tickets, latest_time)]
  /\ UNCHANGED <<source, api, nReq>>

\* save_last_update_time(coll, latest_time) and the success outcome
Save(r) ==
  /\ run[r].pc = "save"
  /\ \E fault \in Faults :
       LET latest_time == run[r].latest_time
           got == save_last_update_time(colls, run[r].coll, latest_time)
           exc == IF fault # "" THEN fault ELSE got.exc
       IN  IF exc # "" THEN Fail(r, "save", exc) /\ UNCHANGED colls
           ELSE /\ colls' = got.colls
                /\ run' = [run EXCEPT ![r].pc = "done", ![r].saved = TRUE,
                             ![r].steps = Append(@, "save"),
                             ![r].coll.metadata = SavedMetadata(latest_time),
                             ![r].result = SyncedResult(run[r].tickets, latest_time)]
  /\ UNCHANGED <<source, api, nReq>>

\* the outcome goes back to the caller
Return(r) ==
  /\ run[r].pc = "done"
  /\ run' = [run EXCEPT ![r] = IdleRun]
  /\ UNCHANGED <<colls, source, api, nReq>>

(***************************************************************************)
(* The other entry points (src/app.py), each handled as one request.       *)
(* fault_at names the store call that finds the server unreachable.        *)
(***************************************************************************)
\* GET /last-update-ticket-time
get_last_update_time(c, fault_at) ==
  LET got == get_or_create_collection(c, "ticketData", NoMetadata)
      collection == [name |-> "ticketData",
                     metadata |-> got.colls["ticketData"].metadata]
  IN  IF fault_at = "connect"
        THEN [colls |-> c, answer |-> [op |-> "get", status |-> 500]]
      ELSE [colls |-> got.colls,
            answer |-> [op |-> "get", status |-> 200,
                        last_update_time |-> load_last_update_time(collection)]]

GetCheckpoint ==
  /\ AllIdle
  /\ nReq < MaxRequests
  /\ nReq' = nReq + 1
  /\ \E fault_at \in {"", "connect"} :
       LET got == get_last_update_time(colls, fault_at)
       IN  colls' = got.colls /\ api' = got.answer
  /\ UNCHANGED <<source, run>>

\* the values a caller posts as last_update_time: two well-formed stamps, one
\* with two spaces between date and time, the spec's out-of-range example,
\* and no value at all
Payloads ==
  { Stamp(2025, 7, 3, 15, 16, 53),
    Stamp(2025, 7, 1, 0, 0, 0),
    SubSeq(Stamp(2025, 7, 3, 15, 16, 53), 1, 10) \o <<" ", " ">>
      \o SubSeq(Stamp(2025, 7, 3, 15, 16, 53), 12, 19),
    <<"2", "0", "2", "5", "-", "1", "3", "-", "5", "0", " ",
      "9", "9", ":", "9", "9", ":", "9", "9">>,
    None }

\* POST /update-last-ticket-time
update_last_update_time(c, new_time, fault_at) ==
  LET parsed == Strptime(new_time)
      got == get_or_create_collection(c, "ticketData", NoMetadata)
      collection == [name |-> "ticketData",
                     metadata |-> got.colls["ticketData"].metadata]
      saved == save_last_update_time(got.colls, collection, new_time)
      answer(status) == [op |-> "set", status |-> status, new_time |-> new_time,
                         fault_at |-> fault_at]
  IN  IF parsed.exc = "ValueError" THEN [colls |-> c, answer |-> answer(400)]
      ELSE IF parsed.exc # "" THEN [colls |-> c, answer |-> answer(500)]
      ELSE IF fault_at = "connect" THEN [colls |-> c, answer |-> answer(500)]
      ELSE IF fault_at = "save" THEN [colls |-> got.colls, answer |-> answer(500)]
      ELSE [colls |-> saved.colls, answer |-> answer(200)]

SetCheckpoint(new_time) ==
  /\ AllIdle
  /\ nReq < MaxRequests
  /\ nReq' = nReq + 1
  /\ \E fault_at \in {"", "connect", "save"} :
       LET got == update_last_update_time(colls, new_time, fault_at)
       IN  colls' = got.colls /\ api' = got.answer
  /\ UNCHANGED <<source, run>>

(***************************************************************************)
(* PDFProcessor (src/document.py).  A document is its file name and what   *)
(* extract_text and split_text make of its bytes: the chunks, or the       *)
(* exception fitz raises.                                                  *)
(***************************************************************************)
MaxChunks == 2

ChunkTexts == <<"chunk A", "chunk B", "chunk C", "chunk D">>

PdfName == <<"a", ".", "p", "d", "f">>

FileNames == {PdfName, <<"a", ".", "t", "x", "t">>}

EndsWithPdf(name) ==
  Len(name) >= 4 /\ SubSeq(name, Len(name) - 3, Len(name)) = <<".", "p", "d", "f">>

\* ChunkIds counting the chunks from 1
ChunkIds_OneBased(source_name, chunks) ==
  [i \in 1..Len(chunks) |-> source_name \o <<"_">> \o Str(i)]

ChunkIds(source_name, chunks) ==
  [i \in 1..Len(chunks) |-> source_name \o <<"_">> \o Str(i - 1)]

ChunkMetadatas(source_name, chunks) ==
  [i \in 1..Len(chunks) |-> [source |-> source_name]]

\* store_chunks(client, chunks, source_name, collection_name)
store_chunks(c, chunks, source_name, coll_name, on_dup) ==
  LET got == get_or_create_collection(c, coll_name, "hnsw:space" :> "cosine")
      added == add(got.colls, coll_name, ChunkIds(source_name, chunks), chunks,
                   ChunkMetadatas(source_name, chunks), on_dup)
      call == [ids |-> ChunkIds(source_name, chunks),
               metadatas |-> ChunkMetadatas(source_name, chunks)]
  IN  IF added.exc # ""
        THEN [exc |-> added.exc, colls |-> got.colls, result |-> None, call |-> call]
      ELSE [exc |-> "", colls |-> added.colls, call |-> call,
            result |-> [source |-> source_name, chunks_stored |-> Len(chunks),
                        collection |-> coll_name]]

\* what becomes of a PDF before the store is reached: extracted and split
\* ("ok"), rejected by fitz, or the server unreachable
PdfOutcomes == {"ok", "DocumentParseError", "ConnectionError"}

\* an optional argument the caller leaves out
NoName == ""

\* collection_name: str = "documentation"
DefaultCollection(coll_name) == IF coll_name = NoName THEN "documentation" ELSE coll_name

\* POST /sync-pdf: sync_pdf(pdf_bytes, file_name, collection_name); the answer
\* carries the arguments of the collection.add made and the summary returned
sync_pdf(c, file_name, outcome, chunks, coll_name, on_dup) ==
  LET got == store_chunks(c, chunks, file_name, DefaultCollection(coll_name), on_dup)
      answer(status) == [op |-> "pdf", status |-> status, file_name |-> file_name,
                         chunks |-> chunks, given |-> coll_name,
                         collection |-> DefaultCollection(coll_name)]
  IN  IF ~EndsWithPdf(file_name) THEN [colls |-> c, answer |-> answer(400)]
      ELSE IF outcome # "ok" THEN [colls |-> c, answer |-> answer(500)]
      ELSE IF got.exc # "" THEN [colls |-> got.colls, answer |-> answer(500)]
      ELSE [colls |-> got.colls,
            answer |-> answer(200) @@ [call |-> got.call, result |-> got.result]]

SyncPdf(file_name, coll_name) ==
  /\ AllIdle
  /\ nReq < MaxRequests
  /\ nReq' = nReq + 1
  /\ \E outcome \in PdfOutcomes, n \in 0..MaxChunks, on_dup \in OnDup :
       /\ outcome # "ok" \/ ~EndsWithPdf(file_name) => n = 0 /\ on_dup = "raise"
       /\ LET got == sync_pdf(colls, file_name, outcome, SubSeq(ChunkTexts, 1, n),
                              coll_name, on_dup)
          IN  colls' = got.colls /\ api' = got.answer
  /\ UNCHANGED <<source, run>>

(***************************************************************************)
(* POST /sync-multiple-pdfs (src/app.py): one upload of several files.  A  *)
(* file is its name and what extract_text and split_text make of its       *)
(* bytes.  fault_at is the position of the file whose store call finds the *)
(* server unreachable (0: none).                                           *)
(***************************************************************************)
MaxFiles == 3

UploadPool ==
  << [filename |-> PdfName, outcome |-> "ok", chunks |-> SubSeq(ChunkTexts, 1, 2)],
     [filename |-> <<"b", ".", "p", "d", "f">>, outcome |-> "ok",
      chunks |-> SubSeq(ChunkTexts, 3, 3)],
     [filename |-> <<"a", ".", "t", "x", "t">>, outcome |-> "ok",
      chunks |-> SubSeq(ChunkTexts, 4, 4)],
     [filename |-> <<"b", ".", "p", "d", "f">>, outcome |-> "DocumentParseError",
      chunks |-> <<>>],
     [filename |-> PdfName, outcome |-> "ok", chunks |-> <<>>] >>

\* the uploads: up to MaxFiles files of the pool, in any order, repeats allowed
Uploads ==
  UNION {[1..n -> 1..Len(UploadPool)] : n \in 0..MaxFiles}

NoChunks == -1

Skipped(file) ==
  [filename |-> file.filename, status |-> "skipped", chunks_stored |-> NoChunks,
   error |-> "Not a PDF"]

Failed(file, e) ==
  [filename |-> file.filename, status |-> "failed", chunks_stored |-> NoChunks,
   error |-> e]

Succeeded(file, stored) ==
  [filename |-> file.filename, status |-> "success",
   chunks_stored |-> stored.chunks_stored, error |-> ""]

\* one iteration of the loop over the files: the entry appended to results and
\* the store afterwards
ProcessFile(c, file, faulty, on_dup) ==
  IF ~EndsWithPdf(file.filename) THEN [colls |-> c, entry |-> Skipped(file)]
  ELSE IF file.outcome # "ok" THEN [colls |-> c, entry |-> Failed(file, file.outcome)]
  ELSE IF faulty THEN [colls |-> c, entry |-> Failed(file, "ConnectionError")]
  ELSE LET got == store_chunks(c, file.chunks, file.filename,
                               DefaultCollection(NoName), on_dup)
       IN  IF got.exc # "" THEN [colls |-> got.colls, entry |-> Failed(file, got.exc)]
           ELSE [colls |-> got.colls, entry |-> Succeeded(file, got.result)]

\* the loop that ends at the first file that fails
RECURSIVE Loop_StopsAtFailure(_, _, _, _, _, _, _)
Loop_StopsAtFailure(c, files, i, fault_at, on_dup, results, trail) ==
  IF i > Len(files) THEN [colls |-> c, results |-> results, trail |-> trail]
  ELSE LET got == ProcessFile(c, files[i], fault_at = i, on_dup)
       IN  IF got.entry.status = "failed"
             THEN [colls |-> got.colls, results |-> Append(results, got.entry),
                   trail |-> Append(trail, got.colls)]
           ELSE Loop_StopsAtFailure(got.colls, files, i + 1, fault_at, on_dup,
                                    Append(results, got.entry), Append(trail, got.colls))

\* `for file in files`: results in upload order; trail is the store after each
\* file
RECURSIVE Loop(_, _, _, _, _, _, _)
Loop(c, files, i, fault_at, on_dup, results, trail) ==
  IF i > Len(files) THEN [colls |-> c, results |-> results, trail |-> trail]
  ELSE LET got == ProcessFile(c, files[i], fault_at = i, on_dup)
       IN  Loop(got.colls, files, i + 1, fault_at, on_dup,
                Append(results, got.entry), Append(trail, got.colls))

\* sync_multiple(files); connect is whether connect_chromadb returns
sync_multiple(c, files, connect, fault_at, on_dup) ==
  LET got == Loop(c, files, 1, fault_at, on_dup, <<>>, <<>>)
      answer(status, results, trail) ==
        [op |-> "multi", status |-> status, files |-> files, before |-> c,
         fault_at |-> fault_at, on_dup |-> on_dup, results |-> results, trail |-> trail]
  IN  IF files = <<>> THEN [colls |-> c, answer |-> answer(400, <<>>, <<>>)]
      ELSE IF ~connect THEN [colls |-> c, answer |-> answer(500, <<>>, <<>>)]
      ELSE [colls |-> got.colls, answer |-> answer(200, got.results, got.trail)]

\* POST /sync-multiple-pdfs
SyncMultiple(upload) ==
  /\ api.op = ""
  /\ nReq < MaxRequests
  /\ nReq' = nReq + 1
  /\ \E connect \in BOOLEAN, fault_at \in 0..Len(upload), on_dup \in OnDup :
       /\ ~connect => fault_at = 0 /\ on_dup = "raise"
       /\ \E got \in {sync_multiple(colls, [i \in 1..Len(upload) |-> UploadPool[upload[i]]],
                                   connect, fault_at, on_dup)} :
            colls' = got.colls /\ api' = got.answer
  /\ UNCHANGED <<source, run>>

\* the store before the upload: empty, or holding the first chunk of an earlier
\* upload of a.pdf
StartStoresMulti ==
  { <<>>,
    store_chunks(<<>>, SubSeq(ChunkTexts, 4, 4), PdfName, DefaultCollection(NoName),
                 "raise").colls }

InitMulti ==
  /\ colls \in StartStoresMulti
  /\ source = {}
  /\ run = [r \in Runs |-> IdleRun]
  /\ api = NoAnswer
  /\ nReq = 0

NextMulti == \E upload \in Uploads : SyncMultiple(upload)

SpecMulti == InitMulti /\ [][NextMulti]_vars

(***************************************************************************)
(* clean_chromadb (src/extra.py).                                          *)
(***************************************************************************)
RECURSIVE DeleteAll(_, _)
DeleteAll(c, names) ==
  IF names = {} THEN c
  ELSE LET n == CHOOSE x \in names : TRUE
       IN  DeleteAll(delete_collection(c, n).colls, names \ {n})

\* clean_chromadb naming a collection that does not exist taken as naming none
clean_chromadb_UnknownIsAll(c, db_name) ==
  IF db_name # NoName /\ db_name \in DOMAIN c
    THEN [colls |-> delete_collection(c, db_name).colls, message |-> "deleted"]
  ELSE [colls |-> DeleteAll(c, DOMAIN c), message |-> "deleted all"]

\* db_name is NoName when the caller names no collection (None, which
\* `if db_name` takes like the empty string)
clean_chromadb(c, db_name) ==
  IF db_name # NoName
    THEN IF db_name \notin DOMAIN c
           THEN [colls |-> c, message |-> "not found"]
         ELSE [colls |-> delete_collection(c, db_name).colls, message |-> "deleted"]
  ELSE [colls |-> DeleteAll(c, DOMAIN c), message |-> "deleted all"]

\* the stores a clean can leave when one of its delete_collection calls raises:
\* the collections deleted before that call are gone (list_collections gives
\* them in any order), the one the call was for and the later ones stay
CleanInterrupted(c, db_name) ==
  IF db_name # NoName
    THEN IF db_name \in DOMAIN c THEN {c} ELSE {}
  ELSE {[n \in kept |-> c[n]] : kept \in (SUBSET DOMAIN c) \ {{}}}

CleanNames == {NoName, "ticketData", "documentation", "other"}

\* POST /clean-db
CleanDb(db_name) ==
  /\ AllIdle
  /\ nReq < MaxRequests
  /\ nReq' = nReq + 1
  /\ \E fault_at \in {"", "connect", "delete"} :
       IF fault_at = "connect"
         THEN colls' = colls /\ api' = [op |-> "clean", status |-> 500, db_name |-> db_name]
       ELSE IF fault_at = "delete"
         THEN /\ colls' \in CleanInterrupted(colls, db_name)
              /\ api' = [op |-> "clean", status |-> 500, db_name |-> db_name]
         ELSE LET got == clean_chromadb(colls, db_name)
              IN  /\ colls' = got.colls
                  /\ api' = [op |-> "clean", status |-> 200, db_name |-> db_name,
                             message |-> got.message]
  /\ UNCHANGED <<source, run>>

Next ==
  \/ \E i \in 1..Len(Incidents) : Resolve(i)
  \/ \E r \in SeqRuns : AllIdle /\ Begin(r)
  \/ \E r \in SeqRuns : ListCollections(r)
  \/ \E r \in SeqRuns : OpenCollection(r)
  \/ \E r \in SeqRuns : Fetch(r)
  \/ \E r \in SeqRuns : Store(r)
  \/ \E r \in SeqRuns : Save(r)
  \/ \E r \in SeqRuns : Return(r)
  \/ GetCheckpoint
  \/ \E new_time \in Payloads : SetCheckpoint(new_time)
  \/ \E file_name \in FileNames, coll_name \in {NoName, "ticketData"} :
       SyncPdf(file_name, coll_name)
  \/ \E db_name \in CleanNames : CleanDb(db_name)

Spec == Init /\ [][Next]_vars

(***************************************************************************)
(* The same operations over a store in use: the ticket collection after a  *)
(* first sync run that stored INC5 and saved its checkpoint, and the       *)
(* documentation collection after an upload of a.pdf.                      *)
(***************************************************************************)
StoreInUse ==
  LET created == create_collection(<<>>, collection_name, CreationMetadata).colls
      coll == [name |-> collection_name, metadata |-> CreationMetadata]
      batch == prepare_ticket_batches(MapResult(<<Incidents[1]>>).tickets)
      stored == store_ticket_data(created, coll, batch.documents, batch.metadatas,
                                  "raise").colls
      saved == save_last_update_time(stored, coll, Incidents[1].sys_created_on).colls
  IN  store_chunks(saved, SubSeq(ChunkTexts, 1, 1), PdfName,
                   DefaultCollection(NoName), "raise").colls

InitInUse ==
  /\ colls = StoreInUse
  /\ source = {1}
  /\ run = [r \in Runs |-> IdleRun]
  /\ api = NoAnswer
  /\ nReq = 0

SpecInUse == InitInUse /\ [][Next]_vars

(***************************************************************************)
(* The ticket sync on its own: runs of sync_tickets, one at a time, while  *)
(* tickets are resolved at the source, and no other entry point is used.   *)
(* The store starts without a checkpoint: with no ticket collection, with  *)
(* one that has no metadata, or with one whose last_update_time is the     *)
(* empty string (which load_last_update_time's caller takes like None).    *)
(***************************************************************************)
StartStores ==
  { <<>>,
    collection_name :> [metadata |-> NoMetadata, docs |-> NoDocs],
    collection_name :> [metadata |-> ("last_update_time" :> <<>>), docs |-> NoDocs] }

InitSync ==
  /\ colls \in StartStores
  /\ source = {}
  /\ run = [r \in Runs |-> IdleRun]
  /\ api = NoAnswer
  /\ nReq = 0

NextSync ==
  \/ \E i \in 1..Len(Incidents) : Resolve(i)
  \/ \E r \in SeqRuns : AllIdle /\ Begin(r)
  \/ \E r \in SeqRuns : ListCollections(r)
  \/ \E r \in SeqRuns : OpenCollection(r)
  \/ \E r \in SeqRuns : Fetch(r)
  \/ \E r \in SeqRuns : Store(r)
  \/ \E r \in SeqRuns : Save(r)
  \/ \E r \in SeqRuns : Return(r)

SpecSync == InitSync /\ [][NextSync]_vars

\* a step of sync_tickets after fetch_db_client
RunStep(r) ==
  ListCollections(r) \/ OpenCollection(r) \/ Fetch(r) \/ Store(r) \/ Save(r)

\* sync_tickets is straight-line, synchronous code: once a call has returned or
\* raised, the run goes on to its next statement (every step of a run moves
\* its position)
SpecSyncLive == SpecSync /\ \A r \in SeqRuns : WF_(run[r].pc)(RunStep(r))

(***************************************************************************)
(* Two requests to /sync-tickets handled at once: sync_tickets takes no     *)
(* lock, so the calls of the two runs interleave in any order, and tickets *)
(* are resolved at the source while the runs are under way.                *)
(***************************************************************************)
ResolveMeanwhile(i) ==
  /\ i \notin source
  /\ source' = source \cup {i}
  /\ UNCHANGED <<colls, run, api, nReq>>

InitConc ==
  /\ colls = <<>>
  /\ source = {}
  /\ run = [r \in Runs |-> IdleRun]
  /\ api = NoAnswer
  /\ nReq = 0

NextConc ==
  \/ \E i \in 1..Len(Incidents) : ResolveMeanwhile(i)
  \/ \E r \in Runs : Begin(r)
  \/ \E r \in Runs : ListCollections(r)
  \/ \E r \in Runs : OpenCollection(r)
  \/ \E r \in Runs : Fetch(r)
  \/ \E r \in Runs : Store(r)
  \/ \E r \in Runs : Save(r)
  \/ \E r \in Runs : Return(r)

SpecConc == InitConc /\ [][NextConc]_vars

(***************************************************************************)
(* A run cut short: the server process dies while sync_tickets is under    *)
(* way, and the next request is handled by a new process.  The run that    *)
(* died stays in the state as it stood ("crashed"); nothing of it is read  *)
(* by the next run, which sees the store alone.  Tickets are resolved at    *)
(* the source at any time.                                                 *)
(***************************************************************************)
\* a store that holds a checkpoint already
StartStoresCrash ==
  StartStores \cup
    {collection_name :> [metadata |-> SavedMetadata(Stamp(2025, 7, 1, 9, 30, 0)),
                         docs |-> NoDocs]}

InitCrash ==
  /\ colls \in StartStoresCrash
  /\ source = {}
  /\ run = [r \in Runs |-> IdleRun]
  /\ api = NoAnswer
  /\ nReq = 0

\* the process dies between two calls of sync_tickets
Crash(r) ==
  /\ run[r].pc \in {"list", "open", "fetch", "store", "save"}
  /\ run' = [run EXCEPT ![r].pc = "crashed"]
  /\ UNCHANGED <<colls, source, api, nReq>>

\* the next request to /sync-tickets after a crash
Restart(r) ==
  /\ \E q \in Runs \ {r} : run[q].pc = "crashed"
  /\ Begin(r)

NextCrash ==
  \/ \E i \in 1..Len(Incidents) : ResolveMeanwhile(i)
  \/ \E r \in SeqRuns : AllIdle /\ Begin(r)
  \/ \E r \in Runs : Crash(r)
  \/ \E r \in Runs : Restart(r)
  \/ \E r \in Runs : ListCollections(r)
  \/ \E r \in Runs : OpenCollection(r)
  \/ \E r \in Runs : Fetch(r)
  \/ \E r \in Runs : Store(r)
  \/ \E r \in Runs : Save(r)

SpecCrash == InitCrash /\ [][NextCrash]_vars

(***************************************************************************)
(* The latest-record selection on its own: fetch_tickets_from_servicenow   *)
(* holds a result array (any records, in any order) and picks the latest;  *)
(* sync_tickets reads the checkpoint candidate off it.                     *)
(***************************************************************************)
MaxBatch == 3

ResultPool ==
  { Incidents[1], Incidents[2], Incidents[3],
    [number |-> <<"I", "N", "C", "0", "1", "0", "0">>,
     short_description |-> "S4", description |-> "Q4", close_notes |-> "A4",
     sys_created_on |-> Stamp(2025, 6, 30, 23, 59, 59)],
    [number |-> <<"I", "N", "C", "0", "0", "7", "X", "9">>,
     short_description |-> "S5", description |-> "Q5", close_notes |-> "A5",
     sys_created_on |-> Stamp(2025, 7, 4, 9, 30, 0)] }

ResultArrays ==
  UNION {{a \in [1..n -> ResultPool] : \A i, j \in 1..n : a[i] = a[j] => i = j} :
           n \in 1..MaxBatch}

InitLatest ==
  /\ colls = <<>>
  /\ source = {}
  /\ api = NoAnswer
  /\ nReq = 0
  /\ \E a \in ResultArrays :
       run = [r \in Runs |-> IF r = 1 THEN [IdleRun EXCEPT !.pc = "result", !.tickets = a]
                             ELSE IdleRun]

\* latest_ticket = max(...), then latest.get('sys_created_on')
SelectLatest ==
  /\ run[1].pc = "result"
  /\ run' = [run EXCEPT ![1].pc = "latest",
                        ![1].latest = MaxByNumber(run[1].tickets),
                        ![1].latest_time = MaxByNumber(run[1].tickets).sys_created_on]
  /\ UNCHANGED <<colls, source, api, nReq>>

NextLatest == SelectLatest

SpecLatest == InitLatest /\ [][NextLatest]_vars

(***************************************************************************)
(* Replies with incomplete records: a run on a new ticket collection gets  *)
(* a 200 reply whose result array holds records that lack a field (None,   *)
(* as ticket.get returns), and goes on from there.                         *)
(***************************************************************************)
MaxReply == 2

ReplyPool ==
  << Incidents[1],
     [Incidents[2] EXCEPT !.description = None],
     [Incidents[2] EXCEPT !.sys_created_on = None],
     [Incidents[3] EXCEPT !.number = None],
     [Incidents[3] EXCEPT !.close_notes = None] >>

\* the result arrays, as the positions in ReplyPool of their records
ReplyArrays ==
  UNION {{a \in [1..n -> 1..Len(ReplyPool)] : \A i, j \in 1..n : a[i] = a[j] => i = j} :
           n \in 1..MaxReply}

InitFields ==
  /\ colls = (collection_name :> [metadata |-> CreationMetadata, docs |-> NoDocs])
  /\ source = {}
  /\ api = NoAnswer
  /\ nReq = 1
  /\ \E a \in ReplyArrays :
       run = [r \in Runs |->
                IF r = 1
                  THEN [IdleRun EXCEPT !.pc = "reply", !.pre = colls,
                          !.raw = [i \in 1..Len(a) |-> ReplyPool[a[i]]],
                          !.steps = <<"connect", "list", "open">>,
                          !.coll = [name |-> collection_name, metadata |-> CreationMetadata],
                          !.cutoff_time = DefaultCutoff]
                ELSE IdleRun]

\* fetch_tickets_from_servicenow from the 200 reply on, and the test `if tickets`
MapReply(r) ==
  /\ run[r].pc = "reply"
  /\ LET got == MapResult(run[r].raw)
         sent == [run EXCEPT ![r].steps = Append(@, "fetch"), ![r].reply = "200",
                             ![r].query = SplitSpace(run[r].cutoff_time)]
     IN  IF got.exc # ""
           THEN run' = [sent EXCEPT ![r].pc = "done", ![r].raised = "fetch",
                          ![r].result = ErrorResult(got.exc)]
         ELSE IF got.tickets # <<>>
           THEN run' = [sent EXCEPT ![r].pc = "store",
                          ![r].tickets = got.tickets, ![r].latest = got.latest]
         ELSE run' = [sent EXCEPT ![r].pc = "done", ![r].result = NoTicketsResult]
  /\ UNCHANGED <<colls, source, api, nReq>>

NextFields ==
  \/ \E r \in SeqRuns : MapReply(r)
  \/ \E r \in SeqRuns : Store(r)
  \/ \E r \in SeqRuns : Save(r)
  \/ \E r \in SeqRuns : Return(r)

SpecFields == InitFields /\ [][NextFields]_vars

(***************************************************************************)
(* Properties.                                                             *)
(***************************************************************************)
\* the checkpoint the store holds for the ticket collection (None: no value)
Checkpoint(c) ==
  IF collection_name \in DOMAIN c
    THEN MetaGet(c[collection_name].metadata, "last_update_time")
  ELSE None

\* the records of the ticket collection
TicketDocs(c) == IF collection_name \in DOMAIN c THEN c[collection_name].docs ELSE NoDocs

\* C1: within a sync run the checkpoint is written only after the run's bulk
\* insert returned without error, and when the insert raises the checkpoint at
\* the end of the run is the checkpoint the run began with.
C1_CheckpointOnlyAfterInsert ==
  \A r \in SeqRuns :
    run[r].pc # "idle" =>
      /\ (run[r].saved \/ Checkpoint(colls) # Checkpoint(run[r].pre)) => run[r].inserted
      /\ (run[r].pc = "done" /\ run[r].raised = "store")
           => Checkpoint(colls) = Checkpoint(run[r].pre)

\* a run whose insert raised, over a store that already held a checkpoint
C1_Witness ==
  /\ run[1].pc = "done"
  /\ run[1].raised = "store"
  /\ Checkpoint(run[1].pre) # None

\* the timestamp a stored checkpoint reads as (<<>> when it reads as none)
CheckpointTime(c) == Strptime(Checkpoint(c)).dt

\* C2: over a sync run the stored checkpoint, read as a timestamp, does not
\* decrease: a checkpoint that read as a time when the run began still reads
\* as a time, and not an earlier one, at every later point of the run.
C2_CheckpointNeverDecreases ==
  \A r \in SeqRuns :
    (run[r].pc # "idle" /\ CheckpointTime(run[r].pre) # <<>>) =>
      /\ CheckpointTime(colls) # <<>>
      /\ ~DtLess(CheckpointTime(colls), CheckpointTime(run[r].pre))

\* a second successful run that moved an existing checkpoint forward
C2_Witness ==
  /\ run[1].pc = "done"
  /\ run[1].saved
  /\ CheckpointTime(run[1].pre) # <<>>
  /\ DtLess(CheckpointTime(run[1].pre), CheckpointTime(colls))

\* the run asked the source and the source has no record after the cutoff
SourceHadNothing(r) ==
  /\ run[r].pc = "done"
  /\ run[r].reply = "200"
  /\ QueryIncidents(source, SplitSpace(run[r].cutoff_time)[1],
                    SplitSpace(run[r].cutoff_time)[2]) = <<>>

\* C3: a run for which the source returns no record leaves the checkpoint and
\* the records of the collection as they were and reports success with
\* tickets_processed = 0; when the collection existed already the whole store
\* is as before, so a further such run starts from the same state and ends
\* the same way.
C3_EmptyRunIsNoOp ==
  \A r \in SeqRuns :
    SourceHadNothing(r) =>
      /\ run[r].raised = ""
      /\ run[r].result.success = TRUE
      /\ run[r].result.tickets_processed = 0
      /\ Checkpoint(colls) = Checkpoint(run[r].pre)
      /\ TicketDocs(colls) = TicketDocs(run[r].pre)
      /\ ~run[r].inserted /\ ~run[r].saved
      /\ collection_name \in DOMAIN run[r].pre => colls = run[r].pre

\* an empty run over a collection that holds a checkpoint and records
C3_Witness ==
  /\ SourceHadNothing(1)
  /\ Checkpoint(run[1].pre) # None
  /\ TicketDocs(run[1].pre) # NoDocs

\* the ordinal of each ticket number of ResultPool, written out
OrdinalOf(number) ==
  CASE number = <<"I", "N", "C", "5">> -> 5
    [] number = <<"I", "N", "C", "1", "0", "0">> -> 100
    [] number = <<"I", "N", "C", "2", "3">> -> 23
    [] number = <<"I", "N", "C", "0", "1", "0", "0">> -> 100
    [] number = <<"I", "N", "C", "0", "0", "7", "X", "9">> -> 7

\* C4: the record chosen as latest is a record of the batch whose ordinal is
\* the greatest of the batch, and the checkpoint candidate is that record's
\* creation timestamp as the source gave it.
C4_LatestHasMaxOrdinal ==
  run[1].pc = "latest" =>
    \E i \in 1..Len(run[1].tickets) :
      /\ run[1].latest = run[1].tickets[i]
      /\ \A j \in 1..Len(run[1].tickets) :
           OrdinalOf(run[1].tickets[j].number) <= OrdinalOf(run[1].tickets[i].number)
      /\ run[1].latest_time = run[1].tickets[i].sys_created_on

\* the spec's example in an order where the latest is neither first nor last
C4_Witness ==
  /\ run[1].pc = "latest"
  /\ Len(run[1].tickets) = 3
  /\ run[1].tickets[1].number = <<"I", "N", "C", "5">>
  /\ run[1].tickets[2].number = <<"I", "N", "C", "1", "0", "0">>
  /\ run[1].tickets[3].number = <<"I", "N", "C", "2", "3">>
  /\ run[1].latest.number = <<"I", "N", "C", "1", "0", "0">>

\* the metadata of the ticket collection (the empty map when there is none)
TicketMeta(c) ==
  IF collection_name \in DOMAIN c THEN c[collection_name].metadata ELSE NoMetadata

\* C5: a step that saves a checkpoint leaves every other metadata key of the
\* collection present with the value it had.
C5_SaveKeepsOtherKeys ==
  [][ (/\ collection_name \in DOMAIN colls
       /\ collection_name \in DOMAIN colls'
       /\ Checkpoint(colls') # Checkpoint(colls))
        => \A k \in (DOMAIN TicketMeta(colls)) \ {"last_update_time"} :
             /\ k \in DOMAIN TicketMeta(colls')
             /\ TicketMeta(colls')[k] = TicketMeta(colls)[k] ]_vars

\* a request to one of the entry points that obtain a collection handle
HandleRequest == nReq' # nReq /\ api'.op \in {"get", "set", "pdf"}

\* C6: a step that obtains a handle to a collection (the open step of a sync
\* run, getCheckpoint, setCheckpoint, the document store) leaves the metadata
\* of every collection that existed as it was, but for the checkpoint
\* setCheckpoint itself writes; the handle of the sync run carries the
\* metadata the collection had.
C6_HandleKeepsMetadata ==
  [][ /\ HandleRequest =>
           \A n \in DOMAIN colls :
             /\ n \in DOMAIN colls'
             /\ \/ colls'[n].metadata = colls[n].metadata
                \/ /\ api'.op = "set" /\ api'.status = 200 /\ n = collection_name
                   /\ colls'[n].metadata = ("last_update_time" :> api'.new_time)
      /\ \A r \in SeqRuns :
           run[r].pc = "open" =>
             \A n \in DOMAIN colls :
               /\ n \in DOMAIN colls'
               /\ colls'[n].metadata = colls[n].metadata
               /\ (n = collection_name /\ run'[r].pc = "fetch")
                    => run'[r].coll.metadata = colls[n].metadata ]_vars

\* chunks stored into the ticket collection, which holds a checkpoint
C6_Witness ==
  /\ api.op = "pdf"
  /\ api.status = 200
  /\ api.collection = collection_name
  /\ Checkpoint(colls) # None

\* YYYY-MM-DD HH:MM:SS, zero-padded, one space, a real date and time
WellFormed(s) ==
  /\ s # None
  /\ Len(s) = 19
  /\ \A i \in {1, 2, 3, 4, 6, 7, 9, 10, 12, 13, 15, 16, 18, 19} : IsDigit(s[i])
  /\ s[5] = "-" /\ s[8] = "-" /\ s[11] = " " /\ s[14] = ":" /\ s[17] = ":"
  /\ Strptime(s).exc = ""

\* C7: setCheckpoint with a value that is not a well-formed timestamp (or with
\* none) answers with an error and leaves the store as it was.
C7_InvalidIsRejected ==
  [][ (nReq' # nReq /\ api'.op = "set" /\ ~WellFormed(api'.new_time))
        => (api'.status # 200 /\ colls' = colls) ]_vars

\* C8: setCheckpoint with a well-formed timestamp succeeds when the store
\* answers, and the getCheckpoint that follows it returns the string set.
C8_SetThenGet ==
  [][ /\ (/\ nReq' # nReq /\ api'.op = "set"
          /\ WellFormed(api'.new_time) /\ api'.fault_at = "")
          => (api'.status = 200 /\ Checkpoint(colls') = api'.new_time)
      /\ (/\ api.op = "set" /\ api.status = 200 /\ WellFormed(api.new_time)
          /\ nReq' # nReq /\ api'.op = "get" /\ api'.status = 200)
          => api'.last_update_time = api.new_time ]_vars

\* getCheckpoint answering with the value a setCheckpoint stored
C8_Witness ==
  /\ api.op = "get"
  /\ api.status = 200
  /\ api.last_update_time = Stamp(2025, 7, 3, 15, 16, 53)

\* C9: when the source answers with a status other than 200 the fetch does not
\* raise and hands back no record; the run inserts nothing, leaves the
\* checkpoint as it was and ends with the outcome of a run with no new ticket.
C9_NonOkReplyIsEmptyRun ==
  \A r \in SeqRuns :
    (run[r].pc # "idle" /\ run[r].reply = "503") =>
      /\ run[r].pc = "done"
      /\ run[r].raised = ""
      /\ run[r].tickets = <<>>
      /\ run[r].result = NoTicketsResult
      /\ run[r].result.success = TRUE
      /\ run[r].result.tickets_processed = 0
      /\ ~run[r].inserted /\ ~run[r].saved
      /\ Checkpoint(colls) = Checkpoint(run[r].pre)
      /\ TicketDocs(colls) = TicketDocs(run[r].pre)

\* a 503 while the source holds records newer than the stored checkpoint
C9_Witness ==
  /\ run[1].pc = "done"
  /\ run[1].reply = "503"
  /\ Checkpoint(run[1].pre) # None
  /\ QueryIncidents(source, SplitSpace(run[1].cutoff_time)[1],
                    SplitSpace(run[1].cutoff_time)[2]) # <<>>

\* C10: a run always ends with an outcome for its caller, and the outcome has
\* success = false exactly when a step of the run raised.
C10_FailureIffRaised ==
  \A r \in SeqRuns :
    run[r].pc = "done" =>
      /\ run[r].result.success \in BOOLEAN
      /\ run[r].result.success = FALSE <=> run[r].raised # ""

\* a run whose checkpoint save raised after the insert had succeeded
C10_Witness ==
  /\ run[1].pc = "done"
  /\ run[1].raised = "save"
  /\ run[1].inserted
  /\ run[1].result.success = FALSE

\* the epoch seconds of the creation times of Incidents, written out
CreatedOf(sys_created_on) ==
  CASE sys_created_on = Stamp(2025, 7, 1, 9, 30, 0) -> 1751362200
    [] sys_created_on = Stamp(2025, 7, 2, 9, 30, 0) -> 1751448600
    [] sys_created_on = Stamp(2025, 7, 3, 9, 30, 0) -> 1751535000

\* C11: the insert of a run is handed one id, one body and one metadata map
\* per fetched record, in the order of the result array: the i-th id is the
\* position i-1 in decimal, the i-th body is the i-th record's description and
\* close notes around the fixed separator, the i-th metadata map holds the
\* i-th record's number, title, url and creation time (epoch and ISO form);
\* an insert that succeeded holds them under every id that was free.
C11_TransformIsPositional ==
  \A r \in SeqRuns :
    run[r].ids # <<>> =>
      LET n == Len(run[r].raw)
      IN  /\ n > 0
          /\ Len(run[r].ids) = n
          /\ Len(run[r].documents) = n
          /\ Len(run[r].metadatas) = n
          /\ \A i \in 1..n :
               LET rec == run[r].raw[i]
                   unit == [document |-> run[r].documents[i],
                            metadata |-> run[r].metadatas[i]]
               IN  /\ run[r].ids[i] = <<DigitChars[i]>>
                   /\ unit.document = <<"Ticket query/question: ", rec.description,
                                        " \n - Ticket answer/solution: ", rec.close_notes>>
                   /\ unit.metadata.ticket_number = rec.number
                   /\ unit.metadata.ticket_title = rec.short_description
                   /\ unit.metadata.url = "SNOW_URL/incident_list.do?"
                   /\ unit.metadata.created = CreatedOf(rec.sys_created_on)
                   /\ unit.metadata.opened_at =
                        SubSeq(rec.sys_created_on, 1, 10) \o <<"T">>
                          \o SubSeq(rec.sys_created_on, 12, 19) \o <<"Z">>
                   /\ DOMAIN unit.metadata =
                        {"ticket_number", "ticket_title", "url", "created", "opened_at"}
                   /\ (run[r].inserted /\ run[r].ids[i] \notin DOMAIN TicketDocs(run[r].pre))
                        => /\ run[r].ids[i] \in DOMAIN TicketDocs(colls)
                           /\ TicketDocs(colls)[run[r].ids[i]] = unit

\* a run that inserted a batch of two records into a collection with no record
C11_Witness ==
  /\ run[1].pc = "done"
  /\ run[1].inserted
  /\ Len(run[1].raw) = 2
  /\ TicketDocs(run[1].pre) = NoDocs
  /\ DOMAIN TicketDocs(colls) = {<<"0">>, <<"1">>}
  /\ TicketDocs(colls)[<<"1">>].metadata.ticket_number = run[1].raw[2].number

\* the run got its collection handle and loaded the cutoff
Opened(r) == Len(run[r].steps) >= 3 /\ run[r].steps[3] = "open" /\ run[r].raised # "open"

\* "2000-01-01 00:00:00" and its two parts
DefaultDate == <<"2", "0", "0", "0", "-", "0", "1", "-", "0", "1">>

DefaultTime == <<"0", "0", ":", "0", "0", ":", "0", "0">>

\* C12: a run over a ticket collection with no checkpoint (no such key, or the
\* empty string) uses the cutoff "2000-01-01 00:00:00", sends it to the source
\* as the lower bound, does not raise on account of the cutoff, and never
\* writes the default to the store: when the run fetched no record the
\* checkpoint is what it was.
C12_DefaultCutoff ==
  \A r \in SeqRuns :
    (Opened(r) /\ ~Truthy(Checkpoint(run[r].pre))) =>
      /\ run[r].cutoff_time = DefaultDate \o <<" ">> \o DefaultTime
      /\ (Len(run[r].steps) >= 4) => /\ run[r].reply # ""
                                     /\ run[r].query = <<DefaultDate, DefaultTime>>
      /\ run[r].raised = "fetch" => run[r].reply = "ConnectionError"
      /\ (run[r].pc = "done" /\ run[r].raw = <<>>)
           => Checkpoint(colls) = Checkpoint(run[r].pre)
      /\ Checkpoint(colls) # DefaultDate \o <<" ">> \o DefaultTime

\* a run that found the checkpoint empty, asked the source and got no record
C12_Witness ==
  /\ run[1].pc = "done"
  /\ run[1].reply = "200"
  /\ run[1].raw = <<>>
  /\ collection_name \in DOMAIN run[1].pre
  /\ "last_update_time" \in DOMAIN TicketMeta(run[1].pre)
  /\ Checkpoint(run[1].pre) = <<>>
  /\ Checkpoint(colls) = <<>>

\* C13: a document store of n chunks that succeeds hands collection.add the
\* ids source_name_0 .. source_name_(n-1), pairwise distinct, and the metadata
\* {source: source_name} for each, into the collection named ("documentation"
\* when none is named); the collection then holds a unit under each id, and
\* the summary reports the source, chunks_stored = n and the collection.
C13_ChunkIdsAndMetadata ==
  (api.op = "pdf" /\ api.status = 200) =>
    LET n == Len(api.chunks)
        ids == api.call.ids
    IN  /\ n > 0
        /\ Len(ids) = n
        /\ Len(api.call.metadatas) = n
        /\ \A i \in 1..n :
             /\ ids[i] = api.file_name \o <<"_", DigitChars[i]>>
             /\ api.call.metadatas[i] = [source |-> api.file_name]
             /\ \A j \in 1..n : ids[i] = ids[j] => i = j
             /\ ids[i] \in DOMAIN colls[api.collection].docs
             /\ colls[api.collection].docs[ids[i]].metadata = [source |-> api.file_name]
        /\ api.result = [source |-> api.file_name, chunks_stored |-> n,
                         collection |-> api.collection]
        /\ api.given = NoName => api.collection = "documentation"
        /\ api.given # NoName => api.collection = api.given

\* two chunks stored with no collection named
C13_Witness ==
  /\ api.op = "pdf"
  /\ api.status = 200
  /\ api.given = NoName
  /\ Len(api.chunks) = 2
  /\ DOMAIN colls["documentation"].docs =
       {PdfName \o <<"_", "0">>, PdfName \o <<"_", "1">>}

\* C14: a run that ends with success = false has left the ticket collection's
\* units and the checkpoint as they were when it began.
C14_FailedRunLeavesNoPartialState ==
  \A r \in SeqRuns :
    (run[r].pc = "done" /\ run[r].result.success = FALSE) =>
      /\ TicketDocs(colls) = TicketDocs(run[r].pre)
      /\ Checkpoint(colls) = Checkpoint(run[r].pre)

\* the ticket collection holds a unit for the record
Stored(c, rec) ==
  \E id \in DOMAIN TicketDocs(c) : TicketDocs(c)[id].metadata.ticket_number = rec.number

\* C15: when a run has advanced the checkpoint, every record the source held
\* during the run whose creation time is at or before the new checkpoint has
\* a unit in the ticket collection.
C15_NoRecordSkipped ==
  \A r \in SeqRuns :
    (run[r].pc = "done" /\ run[r].saved) =>
      \A i \in source :
        ~DtLess(CheckpointTime(colls), Strptime(Incidents[i].sys_created_on).dt)
          => Stored(colls, Incidents[i])

\* the creation time of a record of the source
CreatedAt(rec) == Strptime(rec.sys_created_on).dt

\* C16: in a sequence of sync runs no record gets a unit from more than one
\* run: the collection never holds two units of one ticket, a run fetches
\* only records created after the checkpoint it began with, and the
\* checkpoint a run saves is at or after the creation time of every record of
\* its batch.
C16_NoRecordFetchedTwice ==
  /\ \A a, b \in DOMAIN TicketDocs(colls) :
       TicketDocs(colls)[a].metadata.ticket_number
         = TicketDocs(colls)[b].metadata.ticket_number => a = b
  /\ \A r \in SeqRuns :
       /\ CheckpointTime(run[r].pre) # <<>> =>
            \A i \in 1..Len(run[r].raw) :
              DtLess(CheckpointTime(run[r].pre), CreatedAt(run[r].raw[i]))
       /\ (run[r].pc = "done" /\ run[r].saved) =>
            \A i \in 1..Len(run[r].raw) :
              ~DtLess(CheckpointTime(colls), CreatedAt(run[r].raw[i]))

\* C17: after a run that succeeded with a batch, every ticket of the batch is
\* held by the collection as a unit under the id the run gave it, and no id
\* the run gave was the id of another ticket's unit.
C17_TicketIdsUnique ==
  \A r \in SeqRuns :
    (run[r].pc = "done" /\ run[r].result.success = TRUE /\ run[r].inserted) =>
      \A i \in 1..Len(run[r].raw) :
        LET id == run[r].ids[i]
        IN  /\ id \in DOMAIN TicketDocs(colls)
            /\ TicketDocs(colls)[id].metadata.ticket_number = run[r].raw[i].number
            /\ id \in DOMAIN TicketDocs(run[r].pre) =>
                 TicketDocs(run[r].pre)[id].metadata.ticket_number = run[r].raw[i].number

\* C18: a run whose reply holds records that lack a field does not raise in
\* the fetch; every record is in the batch, with None for what it lacks; and
\* when the latest record has no creation time and the insert succeeds, the
\* run ends with success = true, the batch stored and the checkpoint as it
\* was.
C18_MissingFieldsKept ==
  \A r \in SeqRuns :
    (run[r].reply = "200" /\ run[r].raw # <<>>) =>
      /\ run[r].raised # "fetch"
      /\ Len(run[r].tickets) = Len(run[r].raw)
      /\ \A i \in 1..Len(run[r].raw) :
           /\ run[r].tickets[i].ticket_number = run[r].raw[i].number
           /\ run[r].tickets[i].title = run[r].raw[i].short_description
           /\ run[r].tickets[i].query = run[r].raw[i].description
           /\ run[r].tickets[i].answer = run[r].raw[i].close_notes
      /\ (run[r].pc = "done" /\ run[r].raised = ""
            /\ MaxByNumber(run[r].raw).sys_created_on = None)
           => /\ run[r].inserted
              /\ ~run[r].saved
              /\ run[r].result.success = TRUE
              /\ Checkpoint(colls) = Checkpoint(run[r].pre)

\* C19: when the request to the source raises, the run swallows it: it ends
\* without an exception, reports success = true with no ticket processed, and
\* leaves the checkpoint as it was.
C19_TransportFailureIsSoft ==
  \A r \in SeqRuns :
    (run[r].pc # "idle" /\ run[r].reply = "ConnectionError") =>
      /\ run[r].pc = "done"
      /\ run[r].raised = ""
      /\ run[r].result.success = TRUE
      /\ run[r].result.tickets_processed = 0
      /\ Checkpoint(colls) = Checkpoint(run[r].pre)

\* the calls of a run in the order of the code: fetch_db_client,
\* list_collections, get or create with load_last_update_time, the fetch,
\* prepare and store, save_last_update_time
StepOrder == <<"connect", "list", "open", "fetch", "store", "save">>

DoneEmpty(r) ==
  /\ run[r].result = NoTicketsResult
  /\ run[r].raised = ""
  /\ run[r].steps = SubSeq(StepOrder, 1, 4)
  /\ ~run[r].inserted /\ ~run[r].saved

DoneOk(r) ==
  /\ run[r].result.success = TRUE
  /\ run[r].result.message = "Tickets synced successfully"
  /\ run[r].raised = ""
  /\ run[r].inserted
  /\ \/ run[r].steps = StepOrder /\ run[r].saved
     \/ run[r].steps = SubSeq(StepOrder, 1, 5) /\ ~run[r].saved

DoneError(r) ==
  /\ run[r].result.success = FALSE
  /\ run[r].raised # ""
  /\ run[r].raised = run[r].steps[Len(run[r].steps)]

\* the calls a run has made are an initial part of StepOrder, each made once
\* (so at most one query, one insert and one save); a run that has not ended
\* stands before the next call of the order; a step that raises is the last
\* one made and ends the run; a run that has ended is in exactly one of
\* DONE_EMPTY, DONE_OK and DONE_ERROR
RunStateMachine ==
  \A r \in SeqRuns :
    /\ Len(run[r].steps) <= Len(StepOrder)
    /\ \A k \in 1..Len(run[r].steps) : run[r].steps[k] = StepOrder[k]
    /\ run[r].pc \notin {"idle", "done"} =>
         /\ run[r].raised = ""
         /\ run[r].pc = StepOrder[Len(run[r].steps) + 1]
    /\ run[r].raised # "" => run[r].pc = "done"
    /\ run[r].pc = "done" =>
         Cardinality({o \in {"empty", "ok", "error"} :
                        \/ o = "empty" /\ DoneEmpty(r)
                        \/ o = "ok" /\ DoneOk(r)
                        \/ o = "error" /\ DoneError(r)}) = 1

\* C20: every run goes through its calls in the order of StepOrder, each made
\* at most once, the first that raises ending the run, and, as long as every
\* call returns or raises, the run ends, in exactly one of DONE_EMPTY, DONE_OK
\* and DONE_ERROR.
C20_RunStateMachine ==
  /\ []RunStateMachine
  /\ \A r \in SeqRuns : (run[r].pc # "idle") ~> (run[r].pc = "done")

\* a run that went through every step and advanced the checkpoint
C20_Witness ==
  /\ run[1].pc = "done"
  /\ run[1].steps = StepOrder
  /\ run[1].saved
  /\ DoneOk(1)
  /\ Len(run[1].raw) = 2

\* the two runs loaded the same checkpoint and each inserted, under the same
\* id, the same record
InsertedSameRecord(r, q) ==
  /\ run[r].cutoff_time = run[q].cutoff_time
  /\ run[r].inserted /\ run[q].inserted
  /\ run[r].ids[1] = run[q].ids[1]
  /\ run[r].documents[1] = run[q].documents[1]
  /\ run[r].metadatas[1] = run[q].metadatas[1]

\* both runs loaded the same checkpoint and both inserted the same batch
C21_SameBatchTwice ==
  \E r, q \in Runs :
    /\ r # q
    /\ InsertedSameRecord(r, q)
    /\ run[r].raw = run[q].raw
    /\ run[r].ids = run[q].ids
    /\ run[r].documents = run[q].documents
    /\ run[r].metadatas = run[q].metadatas

\* C21: two sync runs interleaved step by step are not isolated from each
\* other.  A checkpoint save writes the run's own latest creation time whatever
\* checkpoint the store holds then, so that the run that saves last overwrites
\* a later checkpoint of the other run with an earlier one; and an insert is
\* made with the ids and records of the run's own reply, so that two runs that
\* loaded the same checkpoint and got the same reply insert the same batch.
C21_RunsAreNotIsolated ==
  [][\A r \in Runs :
       /\ (run[r].pc = "save" /\ run'[r].saved) =>
            /\ Checkpoint(colls') = run[r].latest_time
            /\ \A q \in Runs \ {r} :
                 (/\ run[q].saved
                  /\ Checkpoint(colls) = run[q].latest_time
                  /\ DtLess(Strptime(run[r].latest_time).dt,
                            Strptime(run[q].latest_time).dt))
                   => DtLess(CheckpointTime(colls'), CheckpointTime(colls))
       /\ (run[r].pc = "store" /\ run'[r].inserted) =>
            /\ run'[r].ids = [i \in 1..Len(run[r].raw) |-> Str(i - 1)]
            /\ \A q \in Runs \ {r} :
                 (/\ run[q].inserted
                  /\ run[q].cutoff_time = run[r].cutoff_time
                  /\ run[q].raw = run[r].raw)
                   => /\ run'[r].ids = run[q].ids
                      /\ run'[r].documents = run[q].documents
                      /\ run'[r].metadatas = run[q].metadatas]_vars

\* both runs loaded the same checkpoint and inserted the same record under the
\* same id, both saved, and the one that saved last left the earlier checkpoint
C21_Witness ==
  \E r, q \in Runs :
    /\ r # q
    /\ run[r].pc = "done" /\ run[q].pc = "done"
    /\ InsertedSameRecord(r, q)
    /\ run[r].saved /\ run[q].saved
    /\ Checkpoint(colls) = run[r].latest_time
    /\ DtLess(Strptime(run[r].latest_time).dt, Strptime(run[q].latest_time).dt)

\* run r died after its insert had returned and before its checkpoint save
CrashedAfterInsert(r) ==
  /\ run[r].pc = "crashed"
  /\ run[r].inserted
  /\ ~run[r].saved

\* the source answers the query of run r as it did when r asked (no ticket
\* resolved since has entered the answer)
SameAnswer(r) ==
  QueryIncidents(source, run[r].query[1], run[r].query[2]) = run[r].raw

\* C22: when a run died after its insert returned and before its checkpoint
\* save, the checkpoint is the one the run began with; the next run starts from
\* that checkpoint, loads the same cutoff and sends the same query, gets the
\* same records (the source answering as before) and, once past its fetch, has
\* called collection.add with the same ids "0".."n-1", documents and metadata
\* as the first insert.  (q is the run after the crash: a run that began
\* before r has crashed itself.)
C22_CrashBeforeSaveRepeatsBatch ==
  \A r \in Runs : \A q \in Runs \ {r} :
    (CrashedAfterInsert(r) /\ run[q].pc # "crashed") =>
      /\ run[r].ids = [i \in 1..Len(run[r].raw) |-> Str(i - 1)]
      /\ run[q].pc = "idle" => Checkpoint(colls) = Checkpoint(run[r].pre)
      /\ run[q].pc # "idle" => Checkpoint(run[q].pre) = Checkpoint(run[r].pre)
      /\ Opened(q) => run[q].cutoff_time = run[r].cutoff_time
      /\ run[q].reply # "" => run[q].query = run[r].query
      /\ (run[q].reply = "200" /\ SameAnswer(r)) =>
           /\ run[q].raw = run[r].raw
           /\ run[q].pc \in {"save", "done"} =>
                /\ run[q].ids = run[r].ids
                /\ run[q].documents = run[r].documents
                /\ run[q].metadatas = run[r].metadatas

\* the run after the crash has repeated the insert of a batch of two records,
\* over a store that held a checkpoint before the crashed run
C22_Witness ==
  /\ CrashedAfterInsert(1)
  /\ Checkpoint(run[1].pre) # None
  /\ Len(run[1].ids) = 2
  /\ run[2].pc = "done"
  /\ run[2].ids = run[1].ids
  /\ run[2].documents = run[1].documents

\* C23: whenever the ticket collection exists, its metadata holds the settings
\* it is to be created with: the cosine similarity setting and the
\* sync-threshold and batch-size hints.
C23_CosineSettingKept ==
  collection_name \in DOMAIN colls =>
    \A key \in DOMAIN CreationMetadata :
      /\ key \in DOMAIN colls[collection_name].metadata
      /\ colls[collection_name].metadata[key] = CreationMetadata[key]

\* the store before file i of the upload is processed
StoreBefore(i) == IF i = 1 THEN api.before ELSE api.trail[i - 1]

\* the chunk ids of file i that the documentation collection holds before it
HeldBefore(i) ==
  IF "documentation" \in DOMAIN StoreBefore(i)
    THEN {k \in 1..Len(api.files[i].chunks) :
            ChunkIds(api.files[i].filename, api.files[i].chunks)[k]
              \in DOMAIN StoreBefore(i)["documentation"].docs}
  ELSE {}

\* a step of file i raises: the extraction, the server unreachable, an add of
\* no chunks, or an add of ids the collection holds on a server that refuses
StepRaises(i) ==
  \/ api.files[i].outcome # "ok"
  \/ api.fault_at = i
  \/ api.files[i].chunks = <<>>
  \/ api.on_dup = "raise" /\ HeldBefore(i) # {}

\* C24: an upload that is answered has one result per file, in upload order;
\* a file that is no PDF is skipped and leaves the store as it was; a PDF one
\* of whose steps raises is failed; and every other PDF, whatever became of
\* the files before it, is a success with its chunk count, its chunks held by
\* the documentation collection under its ids afterwards.
C24_OneResultPerFile ==
  (api.op = "multi" /\ api.status = 200) =>
    /\ Len(api.results) = Len(api.files)
    /\ Len(api.trail) = Len(api.files)
    /\ \A i \in 1..Len(api.files) :
         LET file == api.files[i]
             entry == api.results[i]
             ids == ChunkIds(file.filename, file.chunks)
         IN  /\ entry.filename = file.filename
             /\ IF ~EndsWithPdf(file.filename)
                  THEN entry.status = "skipped" /\ api.trail[i] = StoreBefore(i)
                ELSE IF StepRaises(i) THEN entry.status = "failed"
                ELSE /\ entry.status = "success"
                     /\ entry.chunks_stored = Len(file.chunks)
                     /\ "documentation" \in DOMAIN api.trail[i]
                     /\ \A k \in 1..Len(ids) :
                          /\ ids[k] \in DOMAIN api.trail[i]["documentation"].docs
                          /\ k \notin HeldBefore(i) =>
                               api.trail[i]["documentation"].docs[ids[k]].document
                                 = file.chunks[k]

\* an upload of a file that fails, a file that is no PDF and a PDF that is
\* stored after them
C24_Witness ==
  /\ api.op = "multi" /\ api.status = 200
  /\ Len(api.results) = 3
  /\ api.results[1].status = "failed"
  /\ api.results[2].status = "skipped"
  /\ api.results[3].status = "success"
  /\ api.results[3].chunks_stored = 2
  /\ colls = api.trail[3]
  /\ colls # api.before

\* the collections a store holds, each as it is there
Kept(c, names) == [n \in names |-> c[n]]

\* C25: a step removes a collection only when it is a clean; a clean that
\* names a collection of the store and is answered removes that collection and
\* leaves every other collection as it was, a clean that names a collection
\* the store does not hold leaves the store as it was, and a clean that names
\* none and is answered leaves no collection.
C25_OnlyCleanDeletes ==
  [][/\ (DOMAIN colls) \ (DOMAIN colls') # {} => (nReq' # nReq /\ api'.op = "clean")
     /\ (nReq' # nReq /\ api'.op = "clean") =>
          /\ (DOMAIN colls') \subseteq (DOMAIN colls)
          /\ colls' = Kept(colls, DOMAIN colls')
          /\ (api'.db_name # NoName /\ api'.db_name \notin DOMAIN colls) => colls' = colls
          /\ (api'.status = 200 /\ api'.db_name # NoName) =>
               DOMAIN colls' = (DOMAIN colls) \ {api'.db_name}
          /\ (api'.status = 200 /\ api'.db_name = NoName) => DOMAIN colls' = {}]_vars

\* a clean that named the ticket collection has deleted it and left the
\* documentation collection, with its records, alone in the store
C25_Witness ==
  /\ api.op = "clean" /\ api.status = 200
  /\ api.db_name = "ticketData"
  /\ api.message = "deleted"
  /\ nReq = 1
  /\ colls = Kept(StoreInUse, {"documentation"})
  /\ colls["documentation"].docs # NoDocs

====
